---- MODULE Spec2Model ----
(***************************************************************************)
(* QuickLot: scripts/build_market.py (snapshot of ATR(14), trend and       *)
(* percent change per symbol and interval) and scripts/build_history.py    *)
(* (trailing ATR(14) series per symbol).                                   *)
(*                                                                         *)
(* Numbers.  A Python/numpy float is a record [k, n, d]:                   *)
(*   k = "fin"  the rational n/d in lowest terms, d > 0                    *)
(*   k = "inf"  +infinity (n = 1) or -infinity (n = -1)                    *)
(*   k = "nan"  NaN                                                        *)
(*   k = "null" Python None (the JSON null)                                *)
(* Finite arithmetic is exact; binary rounding error is not modelled.      *)
(* A DataFrame is a sequence of rows [t, Open, High, Low, Close] where t   *)
(* is the index (days since 1970-01-01) and the prices are floats.         *)
(***************************************************************************)
EXTENDS Integers, Sequences, FiniteSets, TLC

(* ------------------------------ floats --------------------------------- *)

IAbs(x) == IF x < 0 THEN -x ELSE x

ISign(x) == IF x < 0 THEN -1 ELSE IF x > 0 THEN 1 ELSE 0

RECURSIVE Gcd(_, _)
Gcd(a, b) == IF b = 0 THEN a ELSE Gcd(b, a % b)

Fin(n, d) ==
    LET s == IF d < 0 THEN -1 ELSE 1
        g == Gcd(IAbs(n), IAbs(d))
    IN  [k |-> "fin", n |-> (s * n) \div g, d |-> (s * d) \div g]

Num(i) == [k |-> "fin", n |-> i, d |-> 1]

NaN == [k |-> "nan", n |-> 0, d |-> 1]

Inf(s) == [k |-> "inf", n |-> s, d |-> 1]

None == [k |-> "null", n |-> 0, d |-> 1]

\* math.isnan
IsNaN(x) == x.k = "nan"

\* math.isinf
IsInf(x) == x.k = "inf"

IsFin(x) == x.k = "fin"

\* pd.notna: NaN and None are missing, +/-inf is not
NotNa(x) == x.k \in {"fin", "inf"}

IsZero(x) == x.k = "fin" /\ x.n = 0

\* float.__bool__: only 0.0 is falsy (NaN and inf are truthy); None is falsy
Truthy(x) == x.k # "null" /\ ~IsZero(x)

FSign(x) == IF x.k \in {"fin", "inf"} THEN ISign(x.n) ELSE 0

FNeg(x) == IF x.k \in {"fin", "inf"} THEN [x EXCEPT !.n = -x.n] ELSE x

FAbs(x) == IF x.k \in {"fin", "inf"} THEN [x EXCEPT !.n = IAbs(x.n)] ELSE x

FAdd(a, b) ==
    IF IsNaN(a) \/ IsNaN(b) THEN NaN
    ELSE IF IsInf(a) THEN (IF IsInf(b) /\ b.n # a.n THEN NaN ELSE a)
    ELSE IF IsInf(b) THEN b
    ELSE Fin(a.n * b.d + b.n * a.d, a.d * b.d)

FSub(a, b) == FAdd(a, FNeg(b))

FMul(a, b) ==
    IF IsNaN(a) \/ IsNaN(b) THEN NaN
    ELSE IF IsInf(a) \/ IsInf(b)
         THEN (IF IsZero(a) \/ IsZero(b) THEN NaN ELSE Inf(FSign(a) * FSign(b)))
    ELSE Fin(a.n * b.n, a.d * b.d)

\* a / b for b # 0 (every division of the scripts is guarded against b = 0)
FDiv(a, b) ==
    IF IsNaN(a) \/ IsNaN(b) THEN NaN
    ELSE IF IsInf(a) THEN (IF IsInf(b) THEN NaN ELSE Inf(a.n * FSign(b)))
    ELSE IF IsInf(b) THEN Num(0)
    ELSE Fin(a.n * b.d, a.d * b.n)

\* a < b; every comparison with NaN is False
FLt(a, b) ==
    /\ ~IsNaN(a) /\ ~IsNaN(b)
    /\ IF IsInf(a) THEN a.n < 0 /\ ~(IsInf(b) /\ b.n < 0)
       ELSE IF IsInf(b) THEN b.n > 0
       ELSE a.n * b.d < b.n * a.d

FGt(a, b) == FLt(b, a)

\* floor(n / d) for d > 0
FloorDiv(n, d) == n \div d

\* round half to even of the rational n/d (d > 0) to an integer
RoundHalfEven(n, d) ==
    LET q == FloorDiv(n, d)
        r2 == 2 * (n - q * d)
    IN  IF r2 < d THEN q
        ELSE IF r2 > d THEN q + 1
        ELSE IF q % 2 = 0 THEN q ELSE q + 1

\* round(x, 2) of a finite float: the nearest multiple of 1/100, ties to even
Round2(x) == Fin(RoundHalfEven(x.n * 100, x.d), 100)

\* pandas Series.round(2): NaN stays NaN
SeriesRound2(x) == IF IsFin(x) THEN Round2(x) ELSE x

(* ------------------------- build_market.py ----------------------------- *)

ATR_PERIOD == 14

\* df.empty
Empty(df) == Len(df) = 0

\* c.shift(1): the previous row's Close, NaN on the first row
PrevClose(df, i) == IF i = 1 THEN NaN ELSE df[i - 1].Close

\* DataFrame.max(axis=1), skipna: the largest non-NaN of the three, NaN if none
RowMax(x, y, z) ==
    LET xs == {v \in {x, y, z} : ~IsNaN(v)}
    IN  IF xs = {} THEN NaN
        ELSE CHOOSE m \in xs : \A v \in xs : ~FLt(m, v)

\* row i of tr: max(|h - l|, |h - prev_c|, |l - prev_c|)
TrueRange(df, i) ==
    LET h == df[i].High
        l == df[i].Low
        pc == PrevClose(df, i)
    IN  RowMax(FAbs(FSub(h, l)), FAbs(FSub(h, pc)), FAbs(FSub(l, pc)))

\* the tr column: one True Range per row, as a tuple
TRColumn(df) == SubSeq([i \in 1..Len(df) |-> TrueRange(df, i)], 1, Len(df))

RECURSIVE Sum(_, _, _)
Sum(xs, lo, hi) == IF lo > hi THEN Num(0) ELSE FAdd(xs[lo], Sum(xs, lo + 1, hi))

\* a rolling mean whose window is one row short
RollingMeanShort(tr, i) ==
    IF i < ATR_PERIOD THEN NaN
    ELSE IF \E j \in (i - ATR_PERIOD + 2)..i : ~IsFin(tr[j]) THEN NaN
    ELSE FDiv(Sum(tr, i - ATR_PERIOD + 2, i), Num(ATR_PERIOD - 1))

\* tr.rolling(14, min_periods=14).mean() at row i: NaN until 14 rows exist and
\* whenever a row of the window is missing (rolling turns +/-inf into NaN first)
RollingMean(tr, i) ==
    IF i < ATR_PERIOD THEN NaN
    ELSE IF \E j \in (i - ATR_PERIOD + 1)..i : ~IsFin(tr[j]) THEN NaN
    ELSE FDiv(Sum(tr, i - ATR_PERIOD + 1, i), Num(ATR_PERIOD))

\* build_market.atr14: the last rolling mean, NaN when there is none
atr14(df) ==
    IF Empty(df) THEN NaN
    ELSE LET atr == RollingMean(TRColumn(df), Len(df))
         IN  IF NotNa(atr) THEN atr ELSE NaN

\* pct_and_trend reporting "no change" as 0.0 when it has nothing to compare
pct_and_trend_zero(df) ==
    IF Len(df) < 2 THEN <<Num(0), "flat">>
    ELSE LET last == df[Len(df)].Close
             prev == df[Len(df) - 1].Close
         IN  IF ~(NotNa(last) /\ NotNa(prev) /\ ~IsZero(prev))
             THEN <<Num(0), "flat">>
             ELSE LET pct == FMul(FDiv(FSub(last, prev), FAbs(prev)), Num(100))
                      trend == IF FGt(pct, Fin(5, 100)) THEN "up"
                               ELSE IF FLt(pct, Fin(-5, 100)) THEN "down"
                               ELSE "flat"
                  IN  <<pct, trend>>

\* pct_and_trend: <<pct, trend>>
pct_and_trend(df) ==
    IF Len(df) < 2 THEN <<None, "flat">>
    ELSE LET last == df[Len(df)].Close
             prev == df[Len(df) - 1].Close
         IN  IF ~(NotNa(last) /\ NotNa(prev) /\ ~IsZero(prev))
             THEN <<None, "flat">>
             ELSE LET pct == FMul(FDiv(FSub(last, prev), FAbs(prev)), Num(100))
                      trend == IF FGt(pct, Fin(5, 100)) THEN "up"
                               ELSE IF FLt(pct, Fin(-5, 100)) THEN "down"
                               ELSE "flat"
                  IN  <<pct, trend>>

\* safe_round(x, 2)
safe_round(x) ==
    IF x.k = "null" \/ IsNaN(x) \/ IsInf(x) THEN None ELSE Round2(x)

\* SYMBOL_MAP, in iteration order: a micro mapped to its standard contract,
\* a second micro, and a contract that only the snapshot tick table knows
SYMBOL_MAP == <<"MES", "MYM", "RB">>

\* SYMBOL_MAP[sym] (YF_MAP holds the same tickers)
Ticker(sym) ==
    IF sym = "MES" THEN "ES=F" ELSE IF sym = "MYM" THEN "YM=F" ELSE "RB=F"

\* TICK_SIZE of build_market.py: 0.25, 1.00, 0.0001
TICK_SIZE == [sym \in {"MES", "MYM", "RB"} |->
                 IF sym = "MES" THEN Fin(1, 4)
                 ELSE IF sym = "MYM" THEN Num(1) ELSE Fin(1, 10000)]

\* TICK_SIZE.get(sym)
TickSizeGet(sym) == IF sym \in DOMAIN TICK_SIZE THEN TICK_SIZE[sym] ELSE None

\* lines 144-145: ATR points -> ticks, None unless tick_size and atr are truthy
Pips(atr, tick_size) ==
    IF Truthy(tick_size) /\ Truthy(atr) /\ ~IsNaN(atr)
    THEN FDiv(atr, tick_size) ELSE None

\* one interval's entry of a symbol (lines 130-131, 142-152)
SnapshotEntry(sym, df) ==
    LET atr == atr14(df)
        pt == pct_and_trend(df)
    IN  [trend |-> pt[2],
         pips |-> safe_round(Pips(atr, TickSizeGet(sym))),
         usd |-> None,
         pct |-> safe_round(pt[1])]

\* _meta of both scripts (updated_utc is the wall clock, left abstract)
Meta == [source |-> "Yahoo Finance via yfinance", atr_period |-> ATR_PERIOD]

(* ------------------------- build_history.py ---------------------------- *)

\* YF_MAP, in iteration order (the same three symbols)
YF_MAP == <<"MES", "MYM", "RB">>

\* TICK as bound when build_one runs: the second assignment (lines 55-65)
\* replaces the first (lines 31-51) and has no entry for RB
TICK == [sym \in {"MES", "MYM"} |-> IF sym = "MES" THEN Fin(1, 4) ELSE Num(1)]

\* TICK.get(sym, None)
TickGet(sym) == IF sym \in DOMAIN TICK THEN TICK[sym] ELSE None

\* values.tail(300)
TAIL == 300

\* Timestamp.strftime("%Y-%m-%d") of day number z (days since 1970-01-01):
\* <<year, month, day>>, which orders as the zero-padded string does
DateStr(z0) ==
    LET z == z0 + 719468
        era == z \div 146097
        doe == z - era * 146097
        yoe == (doe - doe \div 1460 + doe \div 36524 - doe \div 146096) \div 365
        doy == doe - (365 * yoe + yoe \div 4 - yoe \div 100)
        mp == (5 * doy + 2) \div 153
        day == doy - (153 * mp + 2) \div 5 + 1
        month == IF mp < 10 THEN mp + 3 ELSE mp - 9
        year == yoe + era * 400 + (IF month <= 2 THEN 1 ELSE 0)
    IN  <<year, month, day>>

\* a row survives df.dropna() when none of its columns is NaN
RowComplete(row) ==
    ~IsNaN(row.Open) /\ ~IsNaN(row.High) /\ ~IsNaN(row.Low) /\ ~IsNaN(row.Close)

\* df.dropna()
DropNa(df) == SelectSeq(df, RowComplete)

\* build_history.atr14: the whole rolling-mean column
atr14_series(df) ==
    LET tr == TRColumn(df)
    IN  [i \in 1..Len(df) |-> RollingMean(tr, i)]

\* s.head(n) in place of s.tail(n)
HeadSeq(s, n) == IF Len(s) <= n THEN s ELSE SubSeq(s, 1, n)

\* s.tail(n)
TailSeq(s, n) ==
    IF Len(s) <= n THEN s ELSE SubSeq(s, Len(s) - n + 1, Len(s))

\* build_one: [kind, csv, series]; kind is "raise" (an exception leaves
\* build_one), "none" (return None) or "list" (return series)
build_one(sym, raised, df0) ==
    IF raised THEN [kind |-> "raise", csv |-> FALSE, series |-> <<>>]
    ELSE IF Empty(df0) THEN [kind |-> "none", csv |-> FALSE, series |-> <<>>]
    ELSE
      LET df == DropNa(df0)
          atr == atr14_series(df)
          tick == TickGet(sym)
          col == [i \in 1..Len(df) |->
                    IF Truthy(tick) THEN SeriesRound2(FDiv(atr[i], tick))
                    ELSE atr[i]]
          rows == [i \in 1..Len(df) |-> [t |-> df[i].t, v |-> col[i]]]
          NotNaRow(r) == NotNa(r.v)
          values == SelectSeq(rows, NotNaRow)
          tail == TailSeq(values, TAIL)
      IN  \* line 106 selects the column ATR_TICKS, which line 99 creates only
          \* when tick is truthy: KeyError otherwise
          IF ~Truthy(tick)
          THEN [kind |-> "raise", csv |-> FALSE, series |-> <<>>]
          ELSE [kind |-> "list", csv |-> TRUE,
                series |-> [j \in 1..Len(tail) |->
                              <<DateStr(tail[j].t), tail[j].v>>]]

(* ------------------------ the bar source (yfinance) -------------------- *)

\* longest frame a fetch of the snapshot run returns
MaxRunBars == 15

\* longest frame a fetch of the history run returns
MaxHistBars == 314

\* row i's index: weekdays from Monday 2024-10-07 (day 20003) on, two days
\* skipped after every fifth row
DayOf(i) == 20003 + (i - 1) + 2 * ((i - 1) \div 5)

Row(t, o, h, l, c) == [t |-> t, Open |-> o, High |-> h, Low |-> l, Close |-> c]

NaNRow(t) == Row(t, NaN, NaN, NaN, NaN)

\* frames the runs fetch: "flat" never moves, "saw" has a wide first row and
\* ranges of 3..6 points after it, "gap" is "saw" with an all-NaN third row
GenFrame(n, shape) ==
    [i \in 1..n |->
        IF shape = "flat" THEN Row(DayOf(i), Num(100), Num(100), Num(100), Num(100))
        ELSE IF shape = "gap" /\ i = 3 THEN NaNRow(DayOf(i))
        ELSE Row(DayOf(i), Num(101),
                 Num(IF i = 1 THEN 130 ELSE 103 + (i % 4)),
                 Num(100), Num(101 + (i % 2)))]

Raise == [raised |-> TRUE, n |-> 0, shape |-> "flat"]

Frame(n, shape) == [raised |-> FALSE, n |-> n, shape |-> shape]

\* what one Ticker.history call can do: raise, return nothing, return a frame
MarketResponses ==
    {Raise, Frame(0, "flat")}
      \cup {Frame(MaxRunBars, "saw"), Frame(ATR_PERIOD, "saw")}

\* what one yf.download call can do
HistoryResponses ==
    {Raise, Frame(0, "flat")}
      \cup {Frame(ATR_PERIOD, "saw"), Frame(ATR_PERIOD + 1, "saw"),
            Frame(ATR_PERIOD + 2, "gap"), Frame(TAIL + ATR_PERIOD - 1, "saw"),
            Frame(MaxHistBars, "saw"), Frame(MaxHistBars, "gap")}

\* the DataFrame a response carries
Bars(r) == IF r.raised THEN <<>> ELSE GenFrame(r.n, r.shape)

(* ------------------------------ state ---------------------------------- *)

VARIABLES
    script,      \* which script runs: "build_market", "build_history", "none"
    pc,          \* "loop" while main iterates, "done" after the final write
    idx,         \* position of the for loop in SYMBOL_MAP / YF_MAP
    out,         \* build_market: out["daily"], out["hourly"]
    all_series,  \* build_history: all_series
    csv,         \* build_history: symbols whose history/<sym>.csv was written
    calls,       \* every call made to the bar source, in order:
                 \* <<symbol it was made for, ticker, interval>>
    resp_d,      \* response each symbol's daily fetch got
    resp_h,      \* response each symbol's hourly fetch got
    artifact,    \* the JSON file written at the end
    fn_in,       \* one symbol and frame handed to the functions directly
    fn_out       \* what the functions returned for fn_in

vars == <<script, pc, idx, out, all_series, csv, calls, resp_d, resp_h,
          artifact, fn_in, fn_out>>

EmptyMap == <<>>

NoArtifact ==
    [path |-> "", daily |-> EmptyMap, hourly |-> EmptyMap,
     series |-> EmptyMap, meta |-> {}]

NoFn == [sym |-> "", df |-> <<>>]

NoOut == [snap |-> {}, hist |-> {}]

\* dict[key] = value
Put(map, key, value) == (key :> value) @@ map

Init ==
    /\ script \in {"build_market", "build_history"}
    /\ pc = "loop"
    /\ idx = 1
    /\ out = [daily |-> EmptyMap, hourly |-> EmptyMap]
    /\ all_series = EmptyMap
    /\ csv = {}
    /\ calls = <<>>
    /\ resp_d = EmptyMap
    /\ resp_h = EmptyMap
    /\ artifact = NoArtifact
    /\ fn_in = NoFn
    /\ fn_out = NoOut

\* build_market.main, one iteration of the for loop (lines 122-158)
MarketStep ==
    /\ script = "build_market" /\ pc = "loop" /\ idx <= Len(SYMBOL_MAP)
    /\ \E rd \in MarketResponses :
         LET sym == SYMBOL_MAP[idx]
             daily == SnapshotEntry(sym, Bars(rd))
         IN  \E rh \in MarketResponses :
               LET hourly == SnapshotEntry(sym, Bars(rh))
               IN  /\ calls' = calls \o <<<<sym, Ticker(sym), "1d">>,
                                          <<sym, Ticker(sym), "60m">>>>
                   /\ resp_d' = Put(resp_d, sym, rd)
                   /\ resp_h' = Put(resp_h, sym, rh)
                   /\ out' = [daily |-> Put(out.daily, sym, daily),
                              hourly |-> Put(out.hourly, sym, hourly)]
    /\ idx' = idx + 1
    /\ UNCHANGED <<script, pc, all_series, csv, artifact, fn_in, fn_out>>

\* build_market.main after the loop (lines 161-163)
WriteMarket ==
    /\ script = "build_market" /\ pc = "loop" /\ idx > Len(SYMBOL_MAP)
    /\ artifact' = [path |-> "market.json", daily |-> out.daily,
                    hourly |-> out.hourly, series |-> EmptyMap, meta |-> {Meta}]
    /\ pc' = "done"
    /\ UNCHANGED <<script, idx, out, all_series, csv, calls, resp_d, resp_h,
                   fn_in, fn_out>>

\* the loop without its try/except: an exception of build_one ends the run
HistoryStepAbort ==
    /\ script = "build_history" /\ pc = "loop" /\ idx <= Len(YF_MAP)
    /\ \E r \in HistoryResponses :
         LET sym == YF_MAP[idx]
             s == build_one(sym, r.raised, Bars(r))
         IN  /\ calls' = Append(calls, <<sym, Ticker(sym), "1d">>)
             /\ resp_d' = Put(resp_d, sym, r)
             /\ csv' = IF s.csv THEN csv \cup {sym} ELSE csv
             /\ all_series' =
                  IF s.kind = "list" /\ Len(s.series) >= 2
                  THEN Put(all_series, sym, s.series) ELSE all_series
             /\ pc' = IF s.kind = "raise" THEN "done" ELSE pc
    /\ idx' = idx + 1
    /\ UNCHANGED <<script, out, resp_h, artifact, fn_in, fn_out>>

\* the loop fetching a second time when the first fetch gave nothing
HistoryStepRetry ==
    /\ script = "build_history" /\ pc = "loop" /\ idx <= Len(YF_MAP)
    /\ \E r \in HistoryResponses :
         LET sym == YF_MAP[idx]
             s == build_one(sym, r.raised, Bars(r))
             call == <<sym, Ticker(sym), "1d">>
         IN  /\ calls' = IF s.kind = "list" THEN Append(calls, call)
                         ELSE calls \o <<call, call>>
             /\ resp_d' = Put(resp_d, sym, r)
             /\ csv' = IF s.csv THEN csv \cup {sym} ELSE csv
             /\ all_series' =
                  IF s.kind = "list" /\ Len(s.series) >= 2
                  THEN Put(all_series, sym, s.series) ELSE all_series
    /\ idx' = idx + 1
    /\ UNCHANGED <<script, pc, out, resp_h, artifact, fn_in, fn_out>>

\* build_history.main, one iteration of the for loop (lines 122-129)
HistoryStep ==
    /\ script = "build_history" /\ pc = "loop" /\ idx <= Len(YF_MAP)
    /\ \E r \in HistoryResponses :
         LET sym == YF_MAP[idx]
             s == build_one(sym, r.raised, Bars(r))
         IN  /\ calls' = Append(calls, <<sym, Ticker(sym), "1d">>)
             /\ resp_d' = Put(resp_d, sym, r)
             /\ csv' = IF s.csv THEN csv \cup {sym} ELSE csv
             /\ all_series' =
                  IF s.kind = "list" /\ Len(s.series) >= 2
                  THEN Put(all_series, sym, s.series) ELSE all_series
    /\ idx' = idx + 1
    /\ UNCHANGED <<script, pc, out, resp_h, artifact, fn_in, fn_out>>

\* build_history.main after the loop (lines 131-140)
WriteHistory ==
    /\ script = "build_history" /\ pc = "loop" /\ idx > Len(YF_MAP)
    /\ artifact' = [path |-> "market-history.json", daily |-> EmptyMap,
                    hourly |-> EmptyMap, series |-> all_series, meta |-> {Meta}]
    /\ pc' = "done"
    /\ UNCHANGED <<script, idx, out, all_series, csv, calls, resp_d, resp_h,
                   fn_in, fn_out>>

Next == MarketStep \/ WriteMarket \/ HistoryStep \/ WriteHistory

Spec == Init /\ [][Next]_vars

(* ------------- the functions on their own (SpecFn) --------------------- *)

\* longest frame handed to the functions directly
MaxBars == 16

\* a price given in hundredths
P(c) == Fin(c, 100)

\* a row closing at c: a finite close with its range ("range": 2 above,
\* 1 below; "flat": none; wide: 30 more above), or a NaN or infinite close
MkRow(t, c, style, wide) ==
    IF IsNaN(c) THEN NaNRow(t)
    ELSE IF IsInf(c) /\ c.n > 0 THEN Row(t, P(2000), c, P(1900), c)
    ELSE IF IsInf(c) THEN Row(t, P(2000), P(2100), c, c)
    ELSE LET up == (IF style = "range" THEN P(200) ELSE P(0))
         IN  Row(t, c,
                 FAdd(c, FAdd(up, IF wide THEN P(3000) ELSE P(0))),
                 FSub(c, FDiv(up, Num(2))), c)

\* n rows closing at 20.00 except the last two, which close at prev and last
FnFrame(n, wide, style, prev, last) ==
    [i \in 1..n |->
        IF i = n THEN MkRow(DayOf(i), last, style, FALSE)
        ELSE IF i = n - 1 THEN MkRow(DayOf(i), prev, style, FALSE)
        ELSE MkRow(DayOf(i), P(2000), style, wide /\ i = 1)]

PrevCloses == {P(0), P(2000), NaN, Inf(1), Inf(-1)}

LastCloses ==
    {P(0), P(1998), P(1999), P(2000), P(2001), P(2002), NaN, Inf(1), Inf(-1)}

FnFrames ==
    {FnFrame(n, wide, style, prev, last) :
        n \in 0..MaxBars, wide \in BOOLEAN, style \in {"range", "flat"},
        prev \in PrevCloses, last \in LastCloses}

InitFn ==
    /\ script = "none"
    /\ pc = "done"
    /\ idx = 1
    /\ out = [daily |-> EmptyMap, hourly |-> EmptyMap]
    /\ all_series = EmptyMap
    /\ csv = {}
    /\ calls = <<>>
    /\ resp_d = EmptyMap
    /\ resp_h = EmptyMap
    /\ artifact = NoArtifact
    /\ fn_in \in [sym : {"MES", "MYM", "RB"}, df : FnFrames]
    /\ fn_out = NoOut

\* build_market.py on fn_in: atr14, pct_and_trend and the entry built from them
ApplySnapshot ==
    /\ script = "none" /\ fn_out.snap = {}
    /\ fn_out' = [fn_out EXCEPT !.snap =
                    {[atr |-> atr14(fn_in.df),
                      pct |-> pct_and_trend(fn_in.df)[1],
                      trend |-> pct_and_trend(fn_in.df)[2],
                      entry |-> SnapshotEntry(fn_in.sym, fn_in.df)]}]
    /\ UNCHANGED <<script, pc, idx, out, all_series, csv, calls, resp_d,
                   resp_h, artifact, fn_in>>

\* build_history.py on fn_in: atr14 of the frame as build_one hands it over
ApplyHistory ==
    /\ script = "none" /\ fn_out.hist = {}
    /\ fn_out' = [fn_out EXCEPT !.hist =
                    {[df |-> DropNa(fn_in.df),
                      atr |-> SubSeq(atr14_series(DropNa(fn_in.df)), 1,
                                     Len(DropNa(fn_in.df)))]}]
    /\ UNCHANGED <<script, pc, idx, out, all_series, csv, calls, resp_d,
                   resp_h, artifact, fn_in>>

NextFn == ApplySnapshot \/ ApplyHistory

SpecFn == InitFn /\ [][NextFn]_vars

(* ------------------------------ claims --------------------------------- *)

\* the fetch raised or returned no rows
Failed(r) == r.raised \/ r.n = 0

NullEntry == [trend |-> "flat", pips |-> None, usd |-> None, pct |-> None]

Finished(s) == script = s /\ pc = "done"

SeriesFor(sym, r) ==
    LET s == build_one(sym, FALSE, Bars(r))
    IN  IF s.kind = "list" /\ Len(s.series) >= 2 THEN {s.series} ELSE {}

\* the value under key, as a set: empty when the key is absent
Lookup(map, key) == IF key \in DOMAIN map THEN {map[key]} ELSE {}

\* C2: whichever fetches raise or return nothing, each run visits every
\* registry symbol and reaches the final write with _meta attached, and what
\* the output holds for a symbol whose fetch succeeded is what that symbol's
\* own frame alone determines (so the same as in a run where nothing fails).
C2_FailureIsolation ==
    /\ pc = "loop" => ENABLED Next
    /\ Finished("build_market") =>
         /\ artifact.meta = {Meta}
         /\ DOMAIN resp_d = {SYMBOL_MAP[k] : k \in 1..Len(SYMBOL_MAP)}
         /\ DOMAIN resp_h = DOMAIN resp_d
         /\ \A sym \in DOMAIN resp_d :
              /\ ~Failed(resp_d[sym]) =>
                   Lookup(artifact.daily, sym)
                     = {SnapshotEntry(sym, Bars(resp_d[sym]))}
              /\ ~Failed(resp_h[sym]) =>
                   Lookup(artifact.hourly, sym)
                     = {SnapshotEntry(sym, Bars(resp_h[sym]))}
    /\ Finished("build_history") =>
         /\ artifact.meta = {Meta}
         /\ DOMAIN resp_d = {YF_MAP[k] : k \in 1..Len(YF_MAP)}
         /\ \A sym \in DOMAIN resp_d :
              ~Failed(resp_d[sym]) =>
                  Lookup(artifact.series, sym) = SeriesFor(sym, resp_d[sym])

C2_Witness ==
    /\ Finished("build_history")
    /\ resp_d[YF_MAP[1]].raised
    /\ YF_MAP[2] \in DOMAIN artifact.series
    /\ ~Failed(resp_d[YF_MAP[2]])

\* the calls a run has made once its loop stands at position i
CallsBefore(s, i) ==
    IF s = "build_market"
    THEN [k \in 1..(2 * (i - 1)) |->
            LET sym == SYMBOL_MAP[(k + 1) \div 2]
            IN  <<sym, Ticker(sym), IF k % 2 = 1 THEN "1d" ELSE "60m">>]
    ELSE [k \in 1..(i - 1) |-> <<YF_MAP[k], Ticker(YF_MAP[k]), "1d">>]

\* C10: the bar source is called once per symbol and interval, in registry
\* order (snapshot: daily then hourly), and never again for a symbol whose
\* fetch failed or was empty.
C10_OneFetchInRegistryOrder == calls = CallsBefore(script, idx)

C10_Witness ==
    /\ pc = "done"
    /\ \E sym \in DOMAIN resp_d : resp_d[sym].raised
    /\ \E sym \in DOMAIN resp_d : resp_d[sym] = Frame(0, "flat")
    /\ Len(calls) >= Len(YF_MAP)

\* the defined points of sym's unit-converted ATR sequence over the rows of
\* frame r, oldest first: [t, v] per row whose ATR exists
DefinedPoints(sym, r) ==
    LET df == DropNa(Bars(r))
        atr == atr14_series(df)
        tick == TickGet(sym)
        all == [i \in 1..Len(df) |->
                  [t |-> df[i].t,
                   v |-> IF Truthy(tick) THEN SeriesRound2(FDiv(atr[i], tick))
                         ELSE atr[i]]]
        Defined(p) == IsFin(p.v)
    IN  SelectSeq(all, Defined)

\* "YYYY-MM-DD" strings compare as their <<year, month, day>> do
DateLess(a, b) ==
    \/ a[1] < b[1]
    \/ a[1] = b[1] /\ a[2] < b[2]
    \/ a[1] = b[1] /\ a[2] = b[2] /\ a[3] < b[3]

\* C7: every symbol key of the history output holds exactly the last
\* min(n, 300) of the n defined points of that symbol's converted ATR
\* sequence, one per bar date, dates strictly ascending; a symbol with fewer
\* than 2 such points has no key.
C7_SeriesIsTrailingWindow ==
    Finished("build_history") =>
        \A sym \in DOMAIN resp_d :
            LET pts == IF resp_d[sym].raised THEN <<>>
                       ELSE DefinedPoints(sym, resp_d[sym])
                n == Len(pts)
                m == IF n < TAIL THEN n ELSE TAIL
            IN  /\ n < 2 => sym \notin DOMAIN artifact.series
                /\ sym \in DOMAIN artifact.series =>
                     LET s == artifact.series[sym]
                     IN  /\ Len(s) = m
                         /\ \A j \in 1..m :
                              s[j] = <<DateStr(pts[n - m + j].t), pts[n - m + j].v>>
                         /\ \A j \in 1..(m - 1) : DateLess(s[j][1], s[j + 1][1])

C7_Witness ==
    /\ Finished("build_history")
    /\ \E sym \in DOMAIN artifact.series :
         /\ Len(DefinedPoints(sym, resp_d[sym])) > TAIL
         /\ Len(artifact.series[sym]) = TAIL
    /\ \E sym \in DOMAIN artifact.series : Len(artifact.series[sym]) = 2
    /\ \E sym \in DOMAIN resp_d :
         /\ Len(DefinedPoints(sym, resp_d[sym])) = 1
         /\ sym \notin DOMAIN artifact.series

\* C3: a symbol with no (or a zero) tick size is still reported, with the raw
\* ATR: the snapshot's pips is the rounded ATR in points, and the history
\* output holds the symbol's raw ATR points.
C3_NoTickReportsRawAtr ==
    /\ Finished("build_market") =>
         \A sym \in DOMAIN resp_d :
             ~Truthy(TickSizeGet(sym)) =>
                 /\ sym \in DOMAIN artifact.daily
                 /\ artifact.daily[sym].pips
                      = safe_round(atr14(Bars(resp_d[sym])))
    /\ Finished("build_history") =>
         \A sym \in DOMAIN resp_d :
             (/\ ~Truthy(TickGet(sym))
              /\ ~resp_d[sym].raised
              /\ Len(DefinedPoints(sym, resp_d[sym])) >= 2)
             => /\ sym \in DOMAIN artifact.series
                /\ LET pts == DefinedPoints(sym, resp_d[sym])
                       s == artifact.series[sym]
                   IN  s[Len(s)][2] = pts[Len(pts)].v

(* ---------------- claims about the functions (SpecFn) ------------------ *)

\* every price of every row is a finite number
AllFinite(df) ==
    \A i \in 1..Len(df) :
        IsFin(df[i].Open) /\ IsFin(df[i].High) /\ IsFin(df[i].Low) /\ IsFin(df[i].Close)

\* the larger of two finite numbers
Max2(a, b) == IF FLt(a, b) THEN b ELSE a

\* True Range of row i >= 2 of a finite frame, as section 4.1 defines it
RefTR(df, i) ==
    Max2(FSub(df[i].High, df[i].Low),
         Max2(FAbs(FSub(df[i].High, df[i - 1].Close)),
              FAbs(FSub(df[i].Low, df[i - 1].Close))))

RECURSIVE RefSumTR(_, _, _)
RefSumTR(df, lo, hi) ==
    IF lo > hi THEN Num(0) ELSE FAdd(RefTR(df, lo), RefSumTR(df, lo + 1, hi))

\* mean of the True Ranges of the 14 rows ending at row i (i >= 15)
RefMeanTR(df, i) == FDiv(RefSumTR(df, i - ATR_PERIOD + 1, i), Num(ATR_PERIOD))

\* Wilder's recursion over the True Ranges of rows 2..i: seeded with the
\* first sample, then ATR + (TR - ATR) / 14
RECURSIVE RefWilder(_, _)
RefWilder(df, i) ==
    IF i = 2 THEN RefTR(df, 2)
    ELSE LET prev == RefWilder(df, i - 1)
         IN  FAdd(prev, FDiv(FSub(RefTR(df, i), prev), Num(ATR_PERIOD)))

\* C4: a frame of fewer than 15 rows, all prices valid, yields no numeric pips.
C4_ShortFrameHasNoPips ==
    \A r \in fn_out.snap :
        (Len(fn_in.df) < ATR_PERIOD + 1 /\ AllFinite(fn_in.df))
            => r.entry.pips = None

\* the trend classifier of section 4.4: <<rounded pct, trend>>
RefTrend(df) ==
    IF Len(df) < 2 THEN <<None, "flat">>
    ELSE LET last == df[Len(df)].Close
             prev == df[Len(df) - 1].Close
         IN  IF ~IsFin(last) \/ ~IsFin(prev) \/ IsZero(prev)
             THEN <<None, "flat">>
             ELSE LET pct == Fin((last.n * prev.d - prev.n * last.d) * 100 * prev.d,
                                 last.d * prev.d * IAbs(prev.n))
                  IN  <<Round2(pct),
                        IF pct.n * 100 > 5 * pct.d THEN "up"
                        ELSE IF pct.n * 100 < -5 * pct.d THEN "down"
                        ELSE "flat">>

\* C5: pct_and_trend followed by safe_round of pct equals the classifier of
\* section 4.4 on every frame: (null, flat) on fewer than 2 rows, a
\* non-finite close or a zero previous close, and the +/-0.05 band otherwise.
C5_TrendMatchesReference ==
    \A r \in fn_out.snap :
        <<r.entry.pct, r.entry.trend>> = RefTrend(fn_in.df)

\* C6: with a positive finite tick size and a finite ATR a >= 0 (zero
\* included), pips is round(a / tickSize, 2), a number and never null.
C6_PipsIsRoundedQuotient ==
    \A r \in fn_out.snap :
        LET tick == TickSizeGet(fn_in.sym)
        IN  (IsFin(tick) /\ tick.n > 0 /\ IsFin(r.atr) /\ r.atr.n >= 0)
                => /\ r.entry.pips # None
                   /\ r.entry.pips = Round2(FDiv(r.atr, tick))

\* C8 as the spec states it: on a frame of at least 2 rows the ATR is the
\* last term of Wilder's recursion over the True Ranges, and that term is what
\* is converted to pips.
C8_AtrIsWilder ==
    \A r \in fn_out.snap :
        (Len(fn_in.df) >= 2 /\ AllFinite(fn_in.df))
            => LET a == RefWilder(fn_in.df, Len(fn_in.df))
               IN  /\ r.atr = a
                   /\ ~IsZero(a) =>
                        r.entry.pips = Round2(FDiv(a, TICK_SIZE[fn_in.sym]))

\* C8 amended: on a frame of at least 15 rows the ATR is the simple mean of
\* the True Ranges of the last 14 rows, and that mean, when it is not zero,
\* is what is converted to pips.
C8_AtrIsRollingMean ==
    \A r \in fn_out.snap :
        (Len(fn_in.df) >= ATR_PERIOD + 1 /\ AllFinite(fn_in.df))
            => LET a == RefMeanTR(fn_in.df, Len(fn_in.df))
               IN  /\ r.atr = a
                   /\ ~IsZero(a) =>
                        r.entry.pips = Round2(FDiv(a, TICK_SIZE[fn_in.sym]))

C8_Witness ==
    \E r \in fn_out.snap :
        /\ Len(fn_in.df) >= ATR_PERIOD + 1 /\ AllFinite(fn_in.df)
        /\ r.atr # RefWilder(fn_in.df, Len(fn_in.df))
        /\ r.entry.pips # None

\* C9: in both atr14 the first row gives no True Range sample: every ATR
\* value that exists is the mean of the True Ranges of 14 rows that each have
\* a previous close, so none exists before row 15 and the first row's
\* high - low is in none.
C9_FirstRowIsNoSample ==
    /\ \A r \in fn_out.snap :
         (AllFinite(fn_in.df) /\ IsFin(r.atr))
             => /\ Len(fn_in.df) >= ATR_PERIOD + 1
                /\ r.atr = RefMeanTR(fn_in.df, Len(fn_in.df))
    /\ \A h \in fn_out.hist :
         AllFinite(h.df) =>
             \A i \in 1..Len(h.atr) :
                 IsFin(h.atr[i]) =>
                     i >= ATR_PERIOD + 1 /\ h.atr[i] = RefMeanTR(h.df, i)

====
